---- MODULE Spec2Model ----
(***************************************************************************)
(* A model of scrape_memorial.py: a linear pipeline that fetches one       *)
(* memorial page, evaluates the embedded "findagrave" object literal,      *)
(* renames its fields into main_fields, adds five markup lookups and       *)
(* writes one row to an Excel workbook.                                    *)
(*                                                                         *)
(* Text is a sequence of one-character strings.  The page is immutable and *)
(* every lookup reads a different part of it exactly once, so each part is *)
(* drawn when the step that reads it runs and is remembered in soup.       *)
(* A library call inside a try block may raise; whether it does is an      *)
(* input of the step.  A NameError on main_fields is computed, not drawn.  *)
(***************************************************************************)
EXTENDS Integers, Sequences, FiniteSets, TLC

VARIABLES
    pc,           \* the statement the script is about to run
    data,         \* the evaluated findagrave object (payload key -> value)
    loaded,       \* TRUE once step 3 bound data
    main_fields,  \* the record being assembled (output key -> value)
    defined,      \* TRUE once the name main_fields is bound (line 57)
    soup,         \* the parts of the parsed page read so far
    raised,       \* the steps and lookups that raised
    log,          \* errors.txt: the tags of the appended lines, in order
    ran,          \* how many times each step has executed
    writer,       \* the ExcelWriter handle: "none", "open" or "closed"
    sheet,        \* the row handed to to_excel
    handed,       \* TRUE once to_excel was called with the row
    raw_full_name,      \* name cleaning: the raw fullName value
    cleaned_full_name,  \* name cleaning: the cleaned name
    cleaned_again,      \* name cleaning: the cleaned name, cleaned again
    family_section,     \* family extraction: the family-members section
    family,       \* family extraction: the three joined strings
    phase         \* position of the two function-level specifications

vars == <<pc, data, loaded, main_fields, defined, soup, raised, log,
          ran, writer, sheet, handed, raw_full_name, cleaned_full_name,
          cleaned_again, family_section, family, phase>>

pipeVars == <<pc, data, loaded, main_fields, defined, soup, raised, log, ran,
              writer, sheet, handed>>
nameVars == <<raw_full_name, cleaned_full_name, cleaned_again>>
famVars == <<family_section, family>>

(***************************************************************************)
(* Bounds of the model.                                                    *)
(***************************************************************************)
MaxAbsent == 1     \* payload keys that may be missing from one payload
MaxUnits == 4      \* lexical units in a raw fullName
MaxBlocks == 2     \* relationship blocks in a family section

(***************************************************************************)
(* Text helpers.                                                           *)
(***************************************************************************)
Space == " "

RECURSIVE LStrip(_)
LStrip(s) == IF s # <<>> /\ Head(s) = Space THEN LStrip(Tail(s)) ELSE s

RECURSIVE RStrip(_)
RStrip(s) ==
    IF s # <<>> /\ s[Len(s)] = Space THEN RStrip(SubSeq(s, 1, Len(s) - 1)) ELSE s

\* str.strip()
Strip(s) == RStrip(LStrip(s))

\* Tag.get_text(strip=True): every text node stripped, the empty ones
\* skipped, the rest concatenated with the empty separator.
RECURSIVE GetTextStrip(_)
GetTextStrip(strings) ==
    IF strings = <<>> THEN <<>>
    ELSE Strip(Head(strings)) \o GetTextStrip(Tail(strings))

\* ", ".join(texts)
RECURSIVE JoinCommaSpace(_)
JoinCommaSpace(texts) ==
    IF texts = <<>> THEN <<>>
    ELSE IF Len(texts) = 1 THEN Head(texts)
    ELSE Head(texts) \o <<",", " ">> \o JoinCommaSpace(Tail(texts))

(***************************************************************************)
(* Values of the payload and of the record.                                *)
(***************************************************************************)
Str(s) == [t |-> "str", v |-> s]
None == [t |-> "none", v |-> <<>>]
Num == [t |-> "num", v |-> <<>>]
Val(k) == [t |-> "val", v |-> <<k>>]

(***************************************************************************)
(* Step 4, lines 51-55: cleaning fullName.                                 *)
(*                                                                         *)
(* BeautifulSoup(raw_full_name, "html.parser") is modelled on characters.  *)
(* Markup is abbreviated: an element name is written with one letter, and  *)
(* the element named p stands for <span class="prefix">, </p> for its      *)
(* </span>.  &lt; is the character reference of "<".  The raw values are   *)
(* built from whole lexical units (NameUnits), the cleaned values from     *)
(* whatever characters the first cleaning leaves.                          *)
(***************************************************************************)
Letters == {"J", "p", "l", "t"}

OpenPrefix == <<"<", "p", ">">>
ClosePrefix == <<"<", "/", "p", ">">>
EntityLt == <<"&", "l", "t", ";">>

NameUnits == {<<"J">>, <<"p">>, <<Space>>, <<">">>, OpenPrefix, ClosePrefix, EntityLt}

\* The least index at or after i that holds one of cs, 0 when there is none.
FindFrom(s, i, cs) ==
    LET hits == {j \in i..Len(s) : s[j] \in cs}
    IN IF hits = {} THEN 0 ELSE CHOOSE j \in hits : \A k \in hits : j <= k

\* html.parser: "<" followed by a letter opens a start tag, which runs to
\* the next ">"; with no ">" the "<" is character data.
StartTagAt(s, i) ==
    /\ s[i] = "<"
    /\ i + 1 <= Len(s)
    /\ s[i + 1] \in Letters
    /\ FindFrom(s, i, {">"}) # 0

\* The tag name runs to the first whitespace, "/" or ">".
TagNameAt(s, i) == SubSeq(s, i + 1, FindFrom(s, i + 1, {Space, "/", ">"}) - 1)

EndTagAt(s, i) ==
    /\ s[i] = "<"
    /\ i + 3 <= Len(s)
    /\ s[i + 1] = "/"
    /\ s[i + 2] \in Letters
    /\ s[i + 3] = ">"

EntityAt(s, i) == i + 3 <= Len(s) /\ SubSeq(s, i, i + 3) = EntityLt

\* BeautifulSoup._popToTag: close the most recent open element of that
\* name and everything opened inside it; an unmatched end tag is dropped.
PopToTag(open, name) ==
    LET hits == {k \in 1..Len(open) : open[k] = name}
    IN IF hits = {} THEN open
       ELSE SubSeq(open, 1, (CHOOSE k \in hits : \A h \in hits : h <= k) - 1)

\* BeautifulSoup.endData: the character data collected since the last tag
\* becomes one text node; prefix records whether a span.prefix encloses it.
EndData(cur, open, nodes) ==
    IF cur = <<>> THEN nodes
    ELSE Append(nodes, [text |-> cur,
                        prefix |-> \E k \in 1..Len(open) : open[k] = <<"p">>])

RECURSIVE ParseFrom(_, _, _, _, _)
ParseFrom(s, i, open, cur, nodes) ==
    IF i > Len(s) THEN EndData(cur, open, nodes)
    ELSE IF StartTagAt(s, i)
    THEN ParseFrom(s, FindFrom(s, i, {">"}) + 1, Append(open, TagNameAt(s, i)),
                   <<>>, EndData(cur, open, nodes))
    ELSE IF EndTagAt(s, i)
    THEN ParseFrom(s, i + 4, PopToTag(open, <<s[i + 2]>>),
                   <<>>, EndData(cur, open, nodes))
    ELSE IF EntityAt(s, i)
    THEN ParseFrom(s, i + 4, open, Append(cur, "<"), nodes)
    ELSE ParseFrom(s, i + 1, open, Append(cur, s[i]), nodes)

\* Line 52: the text nodes of the parsed value, in document order.
ParseName(s) == ParseFrom(s, 1, <<>>, <<>>, <<>>)

IsOutsidePrefix(n) == ~n.prefix

\* A variant of DecomposePrefix that takes the prefix to be the leading
\* node and removes that, whatever it is.
DecomposeLeading(nodes) == IF nodes = <<>> THEN nodes ELSE Tail(nodes)

\* Lines 53-54: every span.prefix is decomposed, its text nodes with it.
DecomposePrefix(nodes) == SelectSeq(nodes, IsOutsidePrefix)

NodeTexts(nodes) == [k \in 1..Len(nodes) |-> nodes[k].text]

\* Lines 51-55.
CleanName(s) == GetTextStrip(NodeTexts(DecomposePrefix(ParseName(s))))

RECURSIVE Flatten(_)
Flatten(units) ==
    IF units = <<>> THEN <<>> ELSE Head(units) \o Flatten(Tail(units))

UnitSeqs == UNION {[1..n -> NameUnits] : n \in 0..MaxUnits}

RawNames == {Flatten(u) : u \in UnitSeqs}

InitName ==
    /\ raw_full_name \in RawNames
    /\ cleaned_full_name = <<>>
    /\ cleaned_again = <<>>
    /\ phase = "raw"
    /\ pc = "idle" /\ data = <<>> /\ loaded = FALSE /\ main_fields = <<>>
    /\ defined = FALSE /\ soup = <<>> /\ raised = {}
    /\ log = <<>> /\ ran = <<>> /\ writer = "none" /\ sheet = <<>>
    /\ handed = FALSE /\ family_section = <<>> /\ family = <<>>

CleanOnce ==
    /\ phase = "raw"
    /\ cleaned_full_name' = CleanName(raw_full_name)
    /\ phase' = "once"
    /\ UNCHANGED <<raw_full_name, cleaned_again>>
    /\ UNCHANGED pipeVars
    /\ UNCHANGED famVars

CleanTwice ==
    /\ phase = "once"
    /\ cleaned_again' = CleanName(cleaned_full_name)
    /\ phase' = "twice"
    /\ UNCHANGED <<raw_full_name, cleaned_full_name>>
    /\ UNCHANGED pipeVars
    /\ UNCHANGED famVars

NextName == CleanOnce \/ CleanTwice

SpecName == InitName /\ [][NextName]_vars

HasMarkupChar(s) == \E k \in 1..Len(s) : s[k] \in {"<", "&"}

\* C7 as claimed: cleaning is idempotent for every raw fullName value.
C7_IdempotentForEveryRaw ==
    phase = "twice" => cleaned_again = cleaned_full_name

\* C7 as amended: cleaning a cleaned name that holds neither "<" nor "&"
\* yields that same name.
C7_IdempotentWithoutMarkupChars ==
    (phase = "twice" /\ ~HasMarkupChar(cleaned_full_name)) =>
        cleaned_again = cleaned_full_name

\* A prefix span was removed from the raw value and the name left is
\* unchanged by the second cleaning.
C7_Witness ==
    /\ phase = "twice"
    /\ raw_full_name = OpenPrefix \o <<"p">> \o ClosePrefix \o <<"J">>
    /\ cleaned_full_name = <<"J">>
    /\ cleaned_again = cleaned_full_name

(***************************************************************************)
(* Step 7, lines 118-133: the family strings.                              *)
(*                                                                         *)
(* A family-members section is the sequence of its data-relationship       *)
(* blocks in document order; a block holds its anchors in document order;  *)
(* an anchor holds its text nodes and whether it carries href.             *)
(***************************************************************************)
Relations == <<"parents", "spouses", "children">>

RelationSet == {Relations[k] : k \in 1..Len(Relations)}

Anchor(h, strings) == [href |-> h, strings |-> strings]

AnchorA == Anchor(TRUE, <<<<Space, "A">>>>)
AnchorB == Anchor(TRUE, <<<<"B", Space>>, <<Space, "b">>>>)
AnchorC == Anchor(FALSE, <<<<"C">>>>)

AnchorLists ==
    {<<>>, <<AnchorA>>, <<AnchorC>>, <<AnchorA, AnchorB>>, <<AnchorB, AnchorA>>,
     <<AnchorA, AnchorC, AnchorB>>}

Blocks == [rel : RelationSet, anchors : AnchorLists]

NoSection == [found |-> FALSE, blocks |-> <<>>]

Sections ==
    {NoSection} \cup
    {[found |-> TRUE, blocks |-> b] :
        b \in UNION {[1..n -> Blocks] : n \in 0..MaxBlocks}}

HasHref(a) == a.href

\* A variant of FindAllLinks that forgets href=True.
FindAllAnchors(block) == block.anchors

\* Line 126: rel_block.find_all("a", href=True)
FindAllLinks(block) == SelectSeq(block.anchors, HasHref)

\* Line 127: [a.get_text(strip=True) for a in names]
LinkTexts(names) == [k \in 1..Len(names) |-> GetTextStrip(names[k].strings)]

\* Line 124: family_section.find("div", {"data-relationship": relation}),
\* the first such block in document order; 0 stands for None.
FindBlock(sec, relation) ==
    FindFrom([k \in 1..Len(sec.blocks) |-> sec.blocks[k].rel], 1, {relation})

\* Lines 119-127: family_links[relation]
FamilyLinks(sec, relation) ==
    IF ~sec.found THEN <<>>
    ELSE IF FindBlock(sec, relation) = 0 THEN <<>>
    ELSE LinkTexts(FindAllLinks(sec.blocks[FindBlock(sec, relation)]))

\* Lines 130-132: ", ".join(family_links[relation])
FamilyString(sec, relation) == JoinCommaSpace(FamilyLinks(sec, relation))

FamilyKey(relation) ==
    CASE relation = "parents" -> "family_parents"
      [] relation = "spouses" -> "family_spouses"
      [] relation = "children" -> "family_children"

InitFamily ==
    /\ family_section \in Sections
    /\ family = <<>>
    /\ phase = "section"
    /\ raw_full_name = <<>> /\ cleaned_full_name = <<>> /\ cleaned_again = <<>>
    /\ pc = "idle" /\ data = <<>> /\ loaded = FALSE /\ main_fields = <<>>
    /\ defined = FALSE /\ soup = <<>> /\ raised = {}
    /\ log = <<>> /\ ran = <<>> /\ writer = "none" /\ sheet = <<>>
    /\ handed = FALSE

ExtractFamily ==
    /\ phase = "section"
    /\ family' = [r \in RelationSet |-> FamilyString(family_section, r)]
    /\ phase' = "joined"
    /\ UNCHANGED family_section
    /\ UNCHANGED pipeVars
    /\ UNCHANGED nameVars

NextFamily == ExtractFamily

SpecFamily == InitFamily /\ [][NextFamily]_vars

RECURSIVE HyperlinksUpTo(_, _)
HyperlinksUpTo(anchors, n) ==
    IF n = 0 THEN <<>>
    ELSE IF anchors[n].href
    THEN Append(HyperlinksUpTo(anchors, n - 1), anchors[n])
    ELSE HyperlinksUpTo(anchors, n - 1)

RECURSIVE JoinedUpTo(_, _)
JoinedUpTo(links, n) ==
    IF n = 0 THEN <<>>
    ELSE IF n = 1 THEN GetTextStrip(links[1].strings)
    ELSE JoinedUpTo(links, n - 1) \o <<",", Space>> \o GetTextStrip(links[n].strings)

\* What the claim says the string of a category is.
ExpectedFamily(sec, relation) ==
    LET at == {k \in 1..Len(sec.blocks) : sec.blocks[k].rel = relation}
    IN IF ~sec.found \/ at = {} THEN <<>>
       ELSE LET first == CHOOSE k \in at : \A h \in at : k <= h
                links == HyperlinksUpTo(sec.blocks[first].anchors,
                                        Len(sec.blocks[first].anchors))
            IN JoinedUpTo(links, Len(links))

\* C8: for each of parents, spouses and children the family string is the
\* trimmed texts of the hyperlinks of that category's block, in document
\* order, joined with ", "; it is empty when the block or the whole section
\* is absent.
C8_FamilyStrings ==
    phase = "joined" =>
        \A r \in RelationSet : family[r] = ExpectedFamily(family_section, r)

\* A category with two hyperlinks around an anchor without href, another
\* category absent.
C8_Witness ==
    /\ phase = "joined"
    /\ family_section.found
    /\ \E r \in RelationSet :
        /\ family[r] = <<"A", ",", Space, "B", "b">>
        /\ \E k \in 1..Len(family_section.blocks) :
            /\ family_section.blocks[k].rel = r
            /\ family_section.blocks[k].anchors = <<AnchorA, AnchorC, AnchorB>>
    /\ \E r \in RelationSet :
        /\ family[r] = <<>>
        /\ \A k \in 1..Len(family_section.blocks) : family_section.blocks[k].rel # r

(***************************************************************************)
(* The pipeline, lines 17-150.                                             *)
(***************************************************************************)

\* Lines 57-85: output key -> payload key.
FieldMap ==
    [full_name |-> "fullName",
     first_name |-> "firstName",
     last_name |-> "lastName",
     birth_year |-> "birthYear",
     death_year |-> "deathYear",
     death_date |-> "deathDate",
     death_month |-> "deathMonth",
     death_day |-> "deathDay",
     cemetery_name |-> "cemeteryName",
     cemetery_city |-> "cemeteryCityName",
     cemetery_county |-> "cemeteryCountyName",
     cemetery_state |-> "cemeteryStateName",
     cemetery_country |-> "cemeteryCountryName",
     cemetery_latitude |-> "cemeteryLatitude",
     cemetery_longitude |-> "cemeteryLongitude",
     memorial_id |-> "memorialId",
     person_id |-> "personId",
     memorial_contributor_id |-> "memorialContributorId",
     sponsor_contributor_id |-> "sponsorContributorId",
     memorial_url |-> "linkToShare",
     is_famous |-> "isFamous",
     is_cenotaph |-> "isCenotaph",
     has_grave_photo |-> "intermentHasPhoto",
     cover_photo_id |-> "coverPhotoId",
     cover_photo_url |-> "photoToShare",
     default_photo_url |-> "defaultPhotoToShare",
     cemetery_id |-> "memorialCemeteryId"]

OutKeys == DOMAIN FieldMap

PayloadKeys == {FieldMap[k] : k \in OutKeys}

\* The payloads step 3 may evaluate to: at most MaxAbsent keys missing,
\* fullName a string of markup or a number.
RECURSIVE AbsentSets(_)
AbsentSets(n) ==
    IF n = 0 THEN {{}}
    ELSE AbsentSets(n - 1) \cup
         {a \cup {k} : a \in AbsentSets(n - 1), k \in PayloadKeys}

FullNameValues ==
    {Str(OpenPrefix \o <<"p">> \o ClosePrefix \o <<Space, "J">>),
     Str(<<"J", Space, "J">>),
     Num}

Payloads ==
    {[k \in PayloadKeys \ a |-> IF k = "fullName" THEN fn ELSE Val(k)] :
        a \in AbsentSets(MaxAbsent), fn \in FullNameValues}

\* js2py's wrapper: data.<name> of a missing property is None.
Get(d, k) == IF k \in DOMAIN d THEN d[k] ELSE None

\* main_fields[k] = v
Set(fields, k, v) ==
    [x \in DOMAIN fields \cup {k} |-> IF x = k THEN v ELSE fields[x]]

Element(strings) == [found |-> TRUE, strings |-> strings]
NoElement == [found |-> FALSE, strings |-> <<>>]

\* e.get_text(strip=True) if e else ""
TextOrEmpty(e) == IF e.found THEN Str(GetTextStrip(e.strings)) ELSE Str(<<>>)

BioElements == {NoElement, Element(<<<<Space, "b">>, <<"i", Space>>>>)}
PlotElements == {NoElement, Element(<<<<Space, "A", Space>>>>)}
InscriptionElements == {NoElement, Element(<<<<"R", Space>>>>)}

\* p.text-muted: absent, without a link, with a link.
Contributors ==
    {[found |-> FALSE, link |-> NoElement],
     [found |-> TRUE, link |-> NoElement],
     [found |-> TRUE, link |-> Element(<<<<Space, "c">>>>)]}

FamilySamples ==
    {NoSection,
     [found |-> TRUE,
      blocks |-> <<[rel |-> "children", anchors |-> <<AnchorA, AnchorB>>],
                   [rel |-> "parents", anchors |-> <<AnchorC, AnchorA>>]>>]}

Steps ==
    {"fetch", "extract", "normalize", "biography", "bio_by", "plot",
     "inscription", "family", "save"}

Lookups == {"biography", "bio_by", "plot", "inscription", "family"}

Ended == {"done", "exit", "crash"}

Count(s) == [ran EXCEPT ![s] = @ + 1]

\* log_error, lines 13-15: one line appended to errors.txt.
LogError(tag) == Append(log, tag)

\* A variant of AfterFatal that goes on with the next step instead of exiting.
AfterFatalContinue ==
    CASE pc = "fetch" -> "extract"
      [] pc = "extract" -> "normalize"
      [] OTHER -> "done"

\* A variant of AfterFatal that tries the page again.
AfterFatalRetry == "fetch"

\* Lines 26, 46, 150: raise SystemExit(...)
AfterFatal == "exit"

\* Lines 87-90: the except clause of step 4 falls through to step 5.
AfterNormalizeError == "biography"

\* A variant of PlotDefault that only logs, like the other except clauses.
PlotNoDefault(fields) == fields

\* Line 108: the except clause of step 5.1 assigns the default.
PlotDefault(fields) == Set(fields, "Plot", Str(<<>>))

\* A variant of columns_to_drop that drops every free-text column.
columns_to_drop_free_text ==
    {"biography", "bio_by", "inscription", "family_parents", "family_spouses",
     "family_children"}

\* Line 140
columns_to_drop ==
    {"inscription", "family_parents", "family_spouses", "family_children"}

\* Line 141: main_df.drop(columns=columns_to_drop, errors='ignore')
Drop(fields) == [k \in DOMAIN fields \ columns_to_drop |-> fields[k]]

Init ==
    /\ pc = "fetch"
    /\ data = <<>>
    /\ loaded = FALSE
    /\ main_fields = <<>>
    /\ defined = FALSE
    /\ soup = <<>>
    /\ raised = {}
    /\ log = <<>>
    /\ ran = [s \in Steps |-> 0]
    /\ writer = "none"
    /\ sheet = <<>>
    /\ handed = FALSE
    /\ raw_full_name = <<>> /\ cleaned_full_name = <<>> /\ cleaned_again = <<>>
    /\ family_section = <<>> /\ family = <<>>
    /\ phase = "pipeline"

otherVars ==
    <<raw_full_name, cleaned_full_name, cleaned_again, family_section, family,
      phase>>

\* Step 1, lines 18-26, and step 2, line 29.
Fetch ==
    /\ pc = "fetch"
    /\ ran' = Count("fetch")
    /\ \E ok \in BOOLEAN :
        IF ok
        THEN /\ pc' = "extract"
             /\ UNCHANGED <<log, raised>>
        ELSE /\ log' = LogError("CRITICAL")
             /\ raised' = raised \cup {"fetch"}
             /\ pc' = AfterFatal
    /\ UNCHANGED <<data, loaded, main_fields, defined, soup, writer, sheet, handed>>
    /\ UNCHANGED otherVars

\* Step 3, lines 32-46.  The script element is missing (line 35), the
\* object literal is not matched (line 40), js2py raises (line 43), or
\* data is bound.
Extract ==
    /\ pc = "extract"
    /\ ran' = Count("extract")
    /\ \E outcome \in {"no_script", "no_match", "eval_error", "ok"} :
        /\ soup' = soup @@ ("script" :> outcome)
        /\ IF outcome = "ok"
           THEN /\ data' \in Payloads
                /\ loaded' = TRUE
                /\ pc' = "normalize"
                /\ UNCHANGED <<log, raised>>
           ELSE /\ log' = LogError("CRITICAL")
                /\ raised' = raised \cup {"extract"}
                /\ pc' = AfterFatal
                /\ UNCHANGED <<data, loaded>>
    /\ UNCHANGED <<main_fields, defined, writer, sheet, handed>>
    /\ UNCHANGED otherVars

\* Line 52: BeautifulSoup(markup) raises TypeError unless markup is a string.
NameIsMarkup(d) == Get(d, "fullName").t = "str"

\* Lines 57-85: the dict display.
MainFields(d) ==
    [k \in OutKeys |->
        IF k = "full_name" THEN Str(CleanName(Get(d, "fullName").v))
        ELSE Get(d, FieldMap[k])]

\* Step 4, lines 49-87.  main_fields is bound by line 57 only when nothing
\* before it raised.
Normalize ==
    /\ pc = "normalize"
    /\ ran' = Count("normalize")
    /\ IF NameIsMarkup(data)
       THEN /\ main_fields' = MainFields(data)
            /\ defined' = TRUE
            /\ pc' = "biography"
            /\ UNCHANGED <<log, raised>>
       ELSE /\ log' = LogError("DATA")
            /\ raised' = raised \cup {"normalize"}
            /\ pc' = AfterNormalizeError
            /\ UNCHANGED <<main_fields, defined>>
    /\ UNCHANGED <<data, loaded, soup, writer, sheet, handed>>
    /\ UNCHANGED otherVars

\* Step 5, lines 90-100: biography and bio_by share one try block.  at is
\* where a library call raises: "biography" (lines 91-92), "bio_by"
\* (lines 94-98) or "none".  The assignment of line 92 raises NameError
\* when main_fields is unbound.
Biography ==
    /\ pc = "biography"
    /\ \E bio \in BioElements, contributor \in Contributors,
          at \in {"none", "biography", "bio_by"} :
        IF at = "biography" \/ ~defined
        THEN /\ soup' = soup @@ ("partBio" :> bio)
             /\ ran' = Count("biography")
             /\ raised' = raised \cup {"biography"}
             /\ log' = LogError("DATA")
             /\ UNCHANGED main_fields
        ELSE IF at = "bio_by"
        THEN /\ soup' = soup @@ ("partBio" :> bio)
             /\ ran' = [ran EXCEPT !["biography"] = @ + 1, !["bio_by"] = @ + 1]
             /\ raised' = raised \cup {"bio_by"}
             /\ log' = LogError("DATA")
             /\ main_fields' = Set(main_fields, "biography", TextOrEmpty(bio))
        ELSE /\ soup' = soup @@ ("partBio" :> bio) @@ ("text_muted" :> contributor)
             /\ ran' = [ran EXCEPT !["biography"] = @ + 1, !["bio_by"] = @ + 1]
             /\ main_fields' =
                    Set(Set(main_fields, "biography", TextOrEmpty(bio)),
                        "bio_by",
                        IF contributor.found THEN TextOrEmpty(contributor.link)
                        ELSE Str(<<>>))
             /\ UNCHANGED <<log, raised>>
    /\ pc' = "plot"
    /\ UNCHANGED <<data, loaded, defined, writer, sheet, handed>>
    /\ UNCHANGED otherVars

\* Step 5.1, lines 103-108.  The except clause assigns to main_fields too:
\* with main_fields unbound that NameError is raised outside any try and
\* ends the process with a traceback.
Plot ==
    /\ pc = "plot"
    /\ ran' = Count("plot")
    /\ \E e \in PlotElements, libraryRaises \in BOOLEAN :
        /\ soup' = soup @@ ("plotValueLabel" :> e)
        /\ IF ~libraryRaises /\ defined
           THEN /\ main_fields' = Set(main_fields, "Plot", TextOrEmpty(e))
                /\ pc' = "inscription"
                /\ UNCHANGED <<log, raised>>
           ELSE /\ log' = LogError("DATA")
                /\ raised' = raised \cup {"plot"}
                /\ IF defined
                   THEN /\ main_fields' = PlotDefault(main_fields)
                        /\ pc' = "inscription"
                   ELSE /\ pc' = "crash"
                        /\ UNCHANGED main_fields
    /\ UNCHANGED <<data, loaded, defined, writer, sheet, handed>>
    /\ UNCHANGED otherVars

\* Step 6, lines 111-115.
Inscription ==
    /\ pc = "inscription"
    /\ ran' = Count("inscription")
    /\ \E e \in InscriptionElements, libraryRaises \in BOOLEAN :
        /\ soup' = soup @@ ("inscription" :> e)
        /\ IF ~libraryRaises /\ defined
           THEN /\ main_fields' = Set(main_fields, "inscription", TextOrEmpty(e))
                /\ UNCHANGED <<log, raised>>
           ELSE /\ log' = LogError("DATA")
                /\ raised' = raised \cup {"inscription"}
                /\ UNCHANGED main_fields
    /\ pc' = "family"
    /\ UNCHANGED <<data, loaded, defined, writer, sheet, handed>>
    /\ UNCHANGED otherVars

FamilyKeys == {FamilyKey(r) : r \in RelationSet}

RelationOf(key) == CHOOSE r \in RelationSet : FamilyKey(r) = key

\* Lines 129-133: main_fields.update({...})
UpdateFamily(fields, sec) ==
    [x \in DOMAIN fields \cup FamilyKeys |->
        IF x \in FamilyKeys THEN Str(FamilyString(sec, RelationOf(x)))
        ELSE fields[x]]

\* Step 7, lines 118-135.
Family ==
    /\ pc = "family"
    /\ ran' = Count("family")
    /\ \E sec \in FamilySamples, libraryRaises \in BOOLEAN :
        /\ soup' = soup @@ ("family_members" :> sec)
        /\ IF ~libraryRaises /\ defined
           THEN /\ main_fields' = UpdateFamily(main_fields, sec)
                /\ UNCHANGED <<log, raised>>
           ELSE /\ log' = LogError("DATA")
                /\ raised' = raised \cup {"family"}
                /\ UNCHANGED main_fields
    /\ pc' = "save"
    /\ UNCHANGED <<data, loaded, defined, writer, sheet, handed>>
    /\ UNCHANGED otherVars

\* Step 10, lines 138-150.  Line 139 raises NameError when main_fields is
\* unbound.  Otherwise the writer is opened (line 143), the row is handed
\* to it (line 144) and it is closed (line 145); each of the three calls
\* may raise, and the one except clause logs SAVE and exits.
Save ==
    /\ pc = "save"
    /\ ran' = Count("save")
    /\ \E outcome \in {"open_error", "write_error", "close_error", "ok"} :
        IF ~defined \/ outcome = "open_error"
        THEN /\ log' = LogError("SAVE")
             /\ raised' = raised \cup {"save"}
             /\ pc' = AfterFatal
             /\ UNCHANGED <<writer, sheet, handed>>
        ELSE /\ sheet' = Drop(main_fields)
             /\ handed' = TRUE
             /\ IF outcome = "ok"
                THEN /\ writer' = "closed"
                     /\ pc' = "done"
                     /\ UNCHANGED <<log, raised>>
                ELSE /\ writer' = "open"
                     /\ log' = LogError("SAVE")
                     /\ raised' = raised \cup {"save"}
                     /\ pc' = AfterFatal
    /\ UNCHANGED <<data, loaded, main_fields, defined, soup>>
    /\ UNCHANGED otherVars

Next ==
    \/ Fetch
    \/ Extract
    \/ Normalize
    \/ Biography
    \/ Plot
    \/ Inscription
    \/ Family
    \/ Save

Spec == Init /\ [][Next]_vars

(***************************************************************************)
(* The claims about the pipeline.                                          *)
(***************************************************************************)
Fatal == {"CRITICAL", "SAVE"}

LaterSteps == Steps \ {"fetch", "extract", "normalize"}

\* The record keys a lookup sets.
KeysOf(lookup) ==
    CASE lookup = "biography" -> {"biography"}
      [] lookup = "bio_by" -> {"bio_by"}
      [] lookup = "plot" -> {"Plot"}
      [] lookup = "inscription" -> {"inscription"}
      [] lookup = "family" -> {"family_parents", "family_spouses", "family_children"}

\* C1: a failure inside step 4 is logged with a DATA entry and the run then
\* goes through every later step, the sink write included; no exception
\* escapes a later step.
C1_NormalizeFailureReachesSink ==
    ("normalize" \in raised /\ pc \in Ended) =>
        /\ log # <<>> /\ log[1] = "DATA"
        /\ pc # "crash"
        /\ \A s \in LaterSteps : ran[s] = 1

\* C2: the five markup lookups are isolated: in a run that loaded the
\* payload every lookup is attempted whichever others fail, and a lookup
\* that does not fail sets its field.
C2_LookupsIsolated ==
    (loaded /\ pc \in Ended) =>
        \A l \in Lookups :
            /\ ran[l] = 1
            /\ l \notin raised => KeysOf(l) \subseteq DOMAIN main_fields

\* C3: when the script element is missing, or its object literal cannot be
\* isolated or evaluated, one CRITICAL entry is logged and the run is over:
\* no normalization, lookup or sink step has run and no writer was opened.
C3_ExtractFailureAborts ==
    "extract" \in raised =>
        /\ pc = "exit"
        /\ log = <<"CRITICAL">>
        /\ \A s \in LaterSteps \cup {"normalize"} : ran[s] = 0
        /\ ~defined
        /\ writer = "none"
        /\ ~handed

C3_Witness ==
    /\ "extract" \in raised
    /\ soup["script"] = "eval_error"
    /\ pc = "exit"

\* C4: the row handed to the sink holds none of inscription, family_parents,
\* family_spouses, family_children, and every other key of the assembled
\* record with its value.
C4_DroppedColumns ==
    handed =>
        /\ DOMAIN sheet \cap {"inscription", "family_parents", "family_spouses",
                              "family_children"} = {}
        /\ \A k \in DOMAIN main_fields \ {"inscription", "family_parents",
                                           "family_spouses", "family_children"} :
            k \in DOMAIN sheet /\ sheet[k] = main_fields[k]

C4_Witness ==
    /\ handed
    /\ {"inscription", "family_parents", "biography", "bio_by"} \subseteq DOMAIN main_fields
    /\ main_fields["family_parents"] = Str(<<"A">>)
    /\ {"biography", "bio_by"} \subseteq DOMAIN sheet

OutKeyOf(payloadKey) == CHOOSE k \in OutKeys : FieldMap[k] = payloadKey

\* C5: for every key of the mapping table, fullName included, that the
\* payload lacks, the output field is empty, every mapped field the payload
\* has is set, and the record is written (the sink itself not failing).
\* Stated for the payloads whose fullName, when present, is a string.
C5_AbsentKeyStillWritten ==
    (/\ loaded
     /\ pc \in Ended
     /\ "fullName" \in DOMAIN data => data["fullName"].t = "str") =>
        \A k \in PayloadKeys \ DOMAIN data :
            /\ handed \/ "save" \in raised
            /\ defined
            /\ main_fields[OutKeyOf(k)] \in {None, Str(<<>>)}
            /\ \A j \in DOMAIN data : main_fields[OutKeyOf(j)].t # "none"

\* C6: a writer that was opened is closed by the time the process ends,
\* also when writing the table raised.
C6_WriterClosedAtExit ==
    (pc \in Ended /\ writer # "none") => writer = "closed"

\* C9: every row handed to the sink has Plot: the trimmed text of the
\* element, or the empty string when the element is absent or the lookup
\* raised.  biography, bio_by and inscription get no default when their
\* lookup raises.
C9_PlotDefaultOnly ==
    handed =>
        /\ "Plot" \in DOMAIN sheet
        /\ sheet["Plot"] =
             IF "plot" \in raised \/ ~soup["plotValueLabel"].found
             THEN Str(<<>>)
             ELSE Str(GetTextStrip(soup["plotValueLabel"].strings))
        /\ \A l \in {"biography", "bio_by", "inscription"} :
             l \in raised => l \notin DOMAIN main_fields

C9_Witness ==
    /\ handed
    /\ {"plot", "inscription", "bio_by"} \subseteq raised
    /\ soup["plotValueLabel"].found
    /\ sheet["Plot"] = Str(<<>>)
    /\ "biography" \in DOMAIN sheet

\* C10: only the last log entry may be CRITICAL or SAVE, every entry before
\* it is DATA, nothing runs or is logged after it, and no step runs twice.
C10_OneShot ==
    [][/\ \A i \in 1..(Len(log') - 1) : log'[i] = "DATA"
       /\ (log # <<>> /\ log[Len(log)] \in Fatal) => (log' = log /\ ran' = ran)
       /\ \A s \in Steps : ran'[s] <= 1]_vars

C10_Witness ==
    /\ pc = "exit"
    /\ log = <<"DATA", "DATA", "SAVE">>
    /\ \A s \in Steps : ran[s] = 1

====
